---- MODULE Spec2Model ----
(***************************************************************************)
(* A model of the ray-tracing worker of Diggsey/rust-workshop:             *)
(*   src/src/vec.rs   Vec3 and its arithmetic                              *)
(*   src/src/geom.rs  Ray, Sphere, Ray::intersect_sphere                   *)
(*   src/src/main.rs  compute_result (the shader), Connection::request    *)
(*                    and main (the worker loop and the parallel batch)    *)
(*                                                                         *)
(* Two specifications share the variables.  Spec is the worker: connect,   *)
(* SetName, then the ReserveRays / evaluate / SubmitResults loop, with the *)
(* batch evaluated by threads in any interleaving.  ShadeSpec draws one    *)
(* call of compute_result (ray, scene, palette, bounce budget) from        *)
(* bounded sets and applies it.                                            *)
(*                                                                         *)
(* Numbers.  The source computes in f32.  The model computes on a fixed-   *)
(* point grid: a number is an integer count of 1/Scale units, and every    *)
(* operation rounds its exact result to the nearest grid value where f32   *)
(* rounds to the nearest float.  For the rays the specifications draw      *)
(* (coordinates that are whole numbers, axis-aligned unit directions) the  *)
(* sums, differences and products of intersect_sphere are exact in f32 and *)
(* on the grid alike, and only sqrt rounds; reflected rays round in both.  *)
(***************************************************************************)
EXTENDS Integers, Sequences, FiniteSets, TLC

VARIABLES
    pc,         \* main's position (Spec) or the call's position (ShadeSpec)
    opt,        \* Opt: [fg |-> palette, bg |-> background]
    bounces,    \* the bounce budget handed to compute_result
    sent,       \* the kinds of the requests written to the stream, in order
    inflight,   \* requests written whose response has not been read
    response,   \* the variant request() returned for the last request
    ioerr,      \* a transport call has returned Err
    rays,       \* the batch of the last ReserveRays response
    scene,      \* its scene: the ordered spheres
    thread,     \* per pool thread: 0 (idle) or the index of the ray it shades
    results,    \* the collect buffer: per index <<>> or <<outcome>>
    selected,   \* per index the maybe_intersection of the top-level call
    submitted   \* the payload of the SubmitResults request in flight

vars == <<pc, opt, bounces, sent, inflight, response, ioerr, rays, scene,
          thread, results, selected, submitted>>

(***************************************************************************)
(* Bounds of the model.                                                    *)
(***************************************************************************)
MaxSpheres == 3     \* spheres in a scene of ShadeSpec
MaxPalette == 3     \* foreground colours of ShadeSpec
MaxBounces == 1     \* bounce budgets 0..MaxBounces of ShadeSpec
MaxRays == 2        \* rays in a reserved batch of Spec
MaxRequests == 5    \* requests the worker sends before the model stops it
NThreads == 2       \* threads of the pool

(***************************************************************************)
(* f32 on the fixed-point grid.                                            *)
(***************************************************************************)
Scale == 1000

F(n) == n * Scale

\* a / b rounded to the nearest integer (b > 0), halves upwards
RoundDiv(a, b) == (2 * a + b) \div (2 * b)

Mul(a, b) == RoundDiv(a * b, Scale)

Div(a, b) == IF b > 0 THEN RoundDiv(a * Scale, b) ELSE -RoundDiv(a * Scale, -b)

RECURSIVE ISqrtIn(_, _, _)
\* the largest r in lo..hi with r * r <= n
ISqrtIn(n, lo, hi) ==
    IF lo = hi THEN lo
    ELSE LET mid == (lo + hi + 1) \div 2
         IN  IF mid * mid <= n THEN ISqrtIn(n, mid, hi) ELSE ISqrtIn(n, lo, mid - 1)

ISqrt(n) == ISqrtIn(n, 0, 46340)

\* f32::sqrt: the square root of a >= 0 rounded to the nearest grid value
Sqrt(a) ==
    LET n == a * Scale
        r == ISqrt(n)
    IN  IF n - r * r > r THEN r + 1 ELSE r

\* f32::powi(2)
Powi2(a) == Mul(a, a)

\* f32::floor, f32::ceil, f32::fract (self - self.trunc())
Floor(a) == (a \div Scale) * Scale
Ceil(a) == -Floor(-a)
Trunc(a) == IF a >= 0 THEN Floor(a) ELSE Ceil(a)
Fract(a) == a - Trunc(a)

\* `as usize` of an f32: truncates, and saturates at 0 for negatives
AsUsize(a) == IF a <= 0 THEN 0 ELSE a \div Scale

\* `as f32` of a usize
AsF32(n) == F(n)

(***************************************************************************)
(* vec.rs: Vec3.                                                           *)
(***************************************************************************)
Vec3(x, y, z) == [x |-> x, y |-> y, z |-> z]

\* Vec3 from whole-number components
V(x, y, z) == Vec3(F(x), F(y), F(z))

dot(a, b) == Mul(a.x, b.x) + Mul(a.y, b.y) + Mul(a.z, b.z)

length(a) == Sqrt(dot(a, a))

add(a, b) == Vec3(a.x + b.x, a.y + b.y, a.z + b.z)

sub(a, b) == Vec3(a.x - b.x, a.y - b.y, a.z - b.z)

\* impl Mul<Vec3> for f32
mul(k, v) == Vec3(Mul(k, v.x), Mul(k, v.y), Mul(k, v.z))

\* Vec3::reflection is called by compute_result and is not in vec.rs:
\* d - 2 dot(d, n) n, as the specification gives it
reflection(d, n) == sub(d, mul(Mul(F(2), dot(d, n)), n))

(***************************************************************************)
(* geom.rs: Ray, Sphere, Intersection.  Option<T> is <<>> or <<t>>.        *)
(***************************************************************************)
None == <<>>
Some(v) == <<v>>

Ray(o, d) == [origin |-> o, direction |-> d]
Sphere(c, r) == [center |-> c, radius |-> r]

\* the comparison of geom.rs:34
CenterBehind(distance_along_ray) == distance_along_ray < 0

\* a variant of WithinRadius that takes a grazing ray for a miss
WithinRadiusStrict(ray_sphere_distance, radius) == ray_sphere_distance < radius

\* the comparison of geom.rs:45
WithinRadius(ray_sphere_distance, radius) == ray_sphere_distance <= radius

\* a variant of EntryDistance that takes the far crossing of the sphere
EntryDistanceFarSide(distance_along_ray, distance_into_sphere) ==
    distance_along_ray + distance_into_sphere

\* geom.rs:50
EntryDistance(distance_along_ray, distance_into_sphere) ==
    distance_along_ray - distance_into_sphere

intersect_sphere(ray, sphere) ==
    LET offset == sub(sphere.center, ray.origin)
        distance_along_ray == dot(ray.direction, offset)
    IN  IF CenterBehind(distance_along_ray) THEN None
        ELSE
        LET closest_point == add(ray.origin, mul(distance_along_ray, ray.direction))
            ray_sphere_distance == length(sub(sphere.center, closest_point))
        IN  IF WithinRadius(ray_sphere_distance, sphere.radius)
            THEN LET distance_into_sphere ==
                         Sqrt(Powi2(sphere.radius) - Powi2(ray_sphere_distance))
                     distance == EntryDistance(distance_along_ray, distance_into_sphere)
                     position == add(ray.origin, mul(distance, ray.direction))
                     normal == mul(Div(F(1), sphere.radius), sub(position, sphere.center))
                 IN  Some([distance |-> distance, position |-> position,
                           normal |-> normal])
            ELSE None

(***************************************************************************)
(* main.rs: Outcome, Scene, Opt and compute_result.                        *)
(***************************************************************************)
Outcome(hit, color) == [hit |-> hit, color |-> color]

\* a panic of the shader (an index out of bounds, a failed expect)
Panic == [panic |-> TRUE]

LIGHT_DIRECTION == Vec3(Div(F(-4), F(9)), Div(F(8), F(9)), Div(F(1), F(9)))

\* 1e-6 is below the grid's resolution; the model keeps it as the smallest
\* positive step the numbers can take, which is what the source uses it for
EPSILON == 1

\* the literal 0.7 of the reflectivity
Reflectance == Div(F(7), F(10))

\* a variant of min_by_key that keeps the later of two equal keys
min_by_key_keeps_later(x, y) ==
    IF y.intersection.distance <= x.intersection.distance THEN y ELSE x

\* Iterator::min_by_key over two candidates, x met before y: the earlier one
\* is kept unless the later one's key is strictly smaller
min_by_key(x, y) ==
    IF y.intersection.distance < x.intersection.distance THEN y ELSE x

RECURSIVE closest_from(_, _, _, _)
\* the iterator chain of the closest-hit search, from sphere index k (0-based)
\* on, with `best` the minimum of the hits met so far
closest_from(ray, spheres, k, best) ==
    IF k >= Len(spheres) THEN best
    ELSE LET hit == intersect_sphere(ray, spheres[k + 1])
             cand == [index |-> k, intersection |-> hit[1]]
         IN  closest_from(ray, spheres, k + 1,
                 IF hit = None THEN best
                 ELSE IF best = None THEN Some(cand)
                 ELSE Some(min_by_key(best[1], cand)))

maybe_intersection(ray, spheres) == closest_from(ray, spheres, 0, None)

\* a variant of gradient that spreads the spheres over P colours, not P - 1
gradient_over_P(index, P, N) == Div(AsF32(index * P), AsF32(N))

\* a variant of gradient that counts the spheres from 1
gradient_one_based(index, P, N) == Div(AsF32((index + 1) * (P - 1)), AsF32(N))

\* the position along the gradient: usize product, then f32 division
gradient(index, P, N) == Div(AsF32(index * (P - 1)), AsF32(N))

\* the two palette indices
fg1_index(g) == AsUsize(Floor(g))
fg2_index(g) == AsUsize(Ceil(g))

\* a variant of miss_outcome that reports the miss without a colour
miss_outcome_no_color(o) == Outcome(FALSE, None)

\* the outcome of the miss branch
miss_outcome(o) == Outcome(FALSE, Some(o.bg))

RECURSIVE compute_result(_, _, _, _)
compute_result(ray, sc, o, b) ==
    LET found == maybe_intersection(ray, sc)
    IN  IF found = None THEN miss_outcome(o)
        ELSE
        LET index == found[1].index
            intersection == found[1].intersection
            g == gradient(index, Len(o.fg), Len(sc))
            i1 == fg1_index(g)
            i2 == fg2_index(g)
        IN  IF i1 >= Len(o.fg) \/ i2 >= Len(o.fg) THEN Panic
            ELSE
            LET fg1 == o.fg[i1 + 1]
                fg2 == o.fg[i2 + 1]
                f == Fract(g)
                lightness == -dot(LIGHT_DIRECTION, intersection.normal)
                diffuse_color == add(mul(F(1) - f, fg1), mul(f, fg2))
                reflectivity ==
                    Mul(F(1) - Powi2(dot(intersection.normal, ray.direction)),
                        Reflectance)
                reflected_direction == reflection(ray.direction, intersection.normal)
                reflected ==
                    compute_result(
                        Ray(add(intersection.position, mul(EPSILON, reflected_direction)),
                            reflected_direction),
                        sc, o, b - 1)
            IN  IF b > 0
                THEN IF reflected = Panic \/ reflected.color = None THEN Panic
                     ELSE Outcome(TRUE,
                              Some(add(add(mul(F(1) - reflectivity, diffuse_color),
                                           mul(reflectivity, reflected.color[1])),
                                       Vec3(lightness, lightness, lightness))))
                ELSE Outcome(TRUE,
                         Some(add(diffuse_color,
                                  Vec3(lightness, lightness, lightness))))

(***************************************************************************)
(* The inputs of ShadeSpec.                                                *)
(***************************************************************************)
ShadeSpheres ==
    { Sphere(V(0, 0, 0), F(1)), Sphere(V(0, 0, 3), F(1)), Sphere(V(1, 0, 0), F(1)),
      Sphere(V(0, 0, 1), F(2)) }

ShadeRays ==
    { Ray(V(0, 0, -4), V(0, 0, 1)), Ray(V(0, 0, 0), V(0, 0, 1)),
      Ray(V(0, -4, 0), V(0, 1, 0)), Ray(V(0, 0, 2), V(0, 0, -1)),
      Ray(V(1, 1, 2), V(0, 0, -1)) }

SeqsUpTo(S, n) == UNION { [1..k -> S] : k \in 0..n }

\* the k-th colour of the palettes the model draws (k >= 1)
Colour(k) == V(k % 2, (k \div 2) % 2, (k \div 4) % 2)

Palette(P) == [k \in 1..P |-> Colour(k)]

\* --fg with P colours and a --bg that is none of them
Opts == { [fg |-> Palette(P), bg |-> V(1, 0, 1)] : P \in 1..MaxPalette }

Idle == [t \in 1..NThreads |-> 0]

ShadeInit ==
    /\ pc = "call"
    /\ opt \in Opts
    /\ bounces \in 0..MaxBounces
    /\ rays \in [1..1 -> ShadeRays]
    /\ scene \in SeqsUpTo(ShadeSpheres, MaxSpheres)
    /\ results = <<None>>
    /\ selected = <<None>>
    /\ sent = <<>>
    /\ inflight = 0
    /\ response = "None"
    /\ ioerr = FALSE
    /\ thread = Idle
    /\ submitted = <<>>

\* one call of compute_result, recording the closest-hit search it made
Shade ==
    /\ pc = "call"
    /\ pc' = "returned"
    /\ results' = <<Some(compute_result(rays[1], scene, opt, bounces))>>
    /\ selected' = <<maybe_intersection(rays[1], scene)>>
    /\ UNCHANGED <<opt, bounces, sent, inflight, response, ioerr, rays, scene,
                   thread, submitted>>

ShadeNext == Shade

ShadeSpec == ShadeInit /\ [][ShadeNext]_vars

(***************************************************************************)
(* Exact geometry, for the inputs whose coordinates are whole tenths: the  *)
(* quantities the claims speak of, computed in integers without rounding.  *)
(***************************************************************************)
Tenths(a) == (10 * a) \div Scale

\* 100 * t_closest: the projection of center - origin on the direction
ExactAlong(ray, sphere) ==
    Tenths(ray.direction.x) * Tenths(sphere.center.x - ray.origin.x)
    + Tenths(ray.direction.y) * Tenths(sphere.center.y - ray.origin.y)
    + Tenths(ray.direction.z) * Tenths(sphere.center.z - ray.origin.z)

\* 100 * |center - origin|^2
ExactOffsetSq(ray, sphere) ==
    Tenths(sphere.center.x - ray.origin.x) * Tenths(sphere.center.x - ray.origin.x)
    + Tenths(sphere.center.y - ray.origin.y) * Tenths(sphere.center.y - ray.origin.y)
    + Tenths(sphere.center.z - ray.origin.z) * Tenths(sphere.center.z - ray.origin.z)

\* 10000 * d^2, d the distance from the center to the ray's closest point
ExactApartSq(ray, sphere) ==
    100 * ExactOffsetSq(ray, sphere) - ExactAlong(ray, sphere) * ExactAlong(ray, sphere)

\* 10000 * radius^2
ExactRadiusSq(sphere) == 100 * Tenths(sphere.radius) * Tenths(sphere.radius)

\* the origin lies strictly inside the sphere
OriginInside(ray, sphere) ==
    ExactOffsetSq(ray, sphere) < Tenths(sphere.radius) * Tenths(sphere.radius)

\* the tests of geom.rs and the intersection scenarios of the specification
geom_tests ==
    LET H(n) == (n * Scale) \div 10
        T(x, y, z) == Vec3(H(x), H(y), H(z))
        half == H(5)
        diagonal == Ray(V(1, 2, -2), T(6, 8, 0))
        simple == intersect_sphere(Ray(V(0, 0, -2), V(0, 0, 1)), Sphere(V(0, 0, 0), half))
    IN  /\ simple # None
        /\ simple[1].distance = H(15)
        /\ simple[1].position = T(0, 0, -5)
        /\ simple[1].normal = V(0, 0, -1)
        /\ intersect_sphere(Ray(V(10, 5, -12), V(0, 0, 1)), Sphere(V(10, 5, 20), half)) # None
        /\ intersect_sphere(Ray(V(11, 5, -12), V(0, 0, 1)), Sphere(V(10, 5, 20), half)) = None
        /\ intersect_sphere(Ray(V(0, 0, 1), V(0, 0, 1)), Sphere(V(0, 0, 0), half)) = None
        /\ intersect_sphere(diagonal, Sphere(T(40, 67, -18), half)) # None
        /\ intersect_sphere(diagonal, Sphere(T(40, 67, -16), half)) = None

(***************************************************************************)
(* The claims about one call of compute_result, checked under ShadeSpec.   *)
(***************************************************************************)
Returned == pc = "returned"

\* the intersection of the call's ray with the k-th sphere (k from 1)
HitOf(k) == intersect_sphere(rays[1], scene[k])

Spheres == 1..Len(scene)

\* C4: the closest-hit search selects nothing when no sphere is intersected;
\* otherwise the selected pair is the intersection with its own sphere, no
\* intersected sphere is nearer, and every intersected sphere of lower index
\* is strictly farther.
C4_ClosestHitIsFirstMinimum ==
    Returned =>
        IF \A k \in Spheres : HitOf(k) = None
        THEN selected[1] = None
        ELSE /\ selected[1] # None
             /\ LET i == selected[1][1].index + 1
                    best == selected[1][1].intersection
                IN  /\ i \in Spheres
                    /\ HitOf(i) = Some(best)
                    /\ \A k \in Spheres :
                           HitOf(k) # None =>
                               /\ best.distance <= HitOf(k)[1].distance
                               /\ k < i => best.distance < HitOf(k)[1].distance

\* C4's case: two spheres are hit at the same, minimal distance
C4_Witness_Tie ==
    /\ Returned
    /\ selected[1] # None
    /\ \E k \in Spheres :
           /\ k > selected[1][1].index + 1
           /\ HitOf(k) # None
           /\ HitOf(k)[1].distance = selected[1][1].intersection.distance

\* C5 as stated: every hit record has distance >= 0, and so has the closest
\* hit the shader chooses.
C5_DistanceNonNegative ==
    Returned =>
        /\ \A k \in Spheres : HitOf(k) # None => HitOf(k)[1].distance >= 0
        /\ selected[1] # None => selected[1][1].intersection.distance >= 0

\* C5 amended: every hit record has distance >= -radius; its distance is
\* >= 0 when the ray's origin is outside or on the sphere and negative when
\* the origin lies strictly inside it.
C5_DistanceNegativeOnlyInside ==
    Returned =>
        \A k \in Spheres :
            HitOf(k) # None =>
                /\ HitOf(k)[1].distance >= -scene[k].radius
                /\ HitOf(k)[1].distance < 0 <=> OriginInside(rays[1], scene[k])

\* C5's case: the closest hit the shader chose has a negative distance
C5_Witness_InsideHit ==
    /\ Returned
    /\ selected[1] # None
    /\ selected[1][1].intersection.distance < 0
    /\ OriginInside(rays[1], scene[selected[1][1].index + 1])
    /\ results[1][1].hit

\* C6: intersect_sphere returns a hit exactly when t_closest >= 0 and the
\* distance d from the center to the ray's closest point is <= radius; a
\* tangential hit (d = radius) has distance t_closest.  The tests of geom.rs
\* pass.
C6_HitIffAheadAndWithinRadius ==
    Returned =>
        /\ \A k \in Spheres :
               /\ HitOf(k) # None <=>
                      /\ ExactAlong(rays[1], scene[k]) >= 0
                      /\ ExactApartSq(rays[1], scene[k]) <= ExactRadiusSq(scene[k])
               /\ ( /\ ExactAlong(rays[1], scene[k]) >= 0
                    /\ ExactApartSq(rays[1], scene[k]) = ExactRadiusSq(scene[k]) )
                  => /\ HitOf(k) # None
                     /\ HitOf(k)[1].distance =
                            dot(rays[1].direction, sub(scene[k].center, rays[1].origin))
        /\ geom_tests

\* C6's cases: a tangential hit, a center behind the ray and a ray passing
\* farther than the radius, in one scene
C6_Witness_TangentBehindApart ==
    /\ Returned
    /\ \E k \in Spheres :
           /\ ExactAlong(rays[1], scene[k]) >= 0
           /\ ExactApartSq(rays[1], scene[k]) = ExactRadiusSq(scene[k])
           /\ HitOf(k) # None
    /\ \E k \in Spheres :
           /\ ExactAlong(rays[1], scene[k]) < 0
           /\ HitOf(k) = None
    /\ \E k \in Spheres :
           /\ ExactAlong(rays[1], scene[k]) >= 0
           /\ ExactApartSq(rays[1], scene[k]) > ExactRadiusSq(scene[k])
           /\ HitOf(k) = None

\* C7: for every sphere index i < N the gradient position g satisfies
\* 0 <= floor(g) <= ceil(g) <= P - 1, so the shader's two palette lookups are
\* in range and it does not panic; with P = 1 both lookups are the single entry.
C7_PaletteIndexInRange ==
    Returned =>
        LET P == Len(opt.fg)
            N == Len(scene)
        IN  /\ \A i \in 0..(N - 1) :
                   LET g == gradient(i, P, N)
                   IN  /\ 0 <= Floor(g)
                       /\ Floor(g) <= Ceil(g)
                       /\ Ceil(g) <= F(P - 1)
                       /\ fg1_index(g) <= fg2_index(g)
                       /\ fg2_index(g) <= P - 1
                       /\ P = 1 => /\ opt.fg[fg1_index(g) + 1] = opt.fg[1]
                                   /\ opt.fg[fg2_index(g) + 1] = opt.fg[1]
            /\ results[1][1] # Panic

\* C7's case: a hit on a sphere whose gradient position is not whole, with
\* more than one colour
C7_Witness_BetweenColours ==
    /\ Returned
    /\ selected[1] # None
    /\ Len(opt.fg) > 1
    /\ LET g == gradient(selected[1][1].index, Len(opt.fg), Len(scene))
       IN  fg1_index(g) < fg2_index(g)
    /\ results[1][1].hit

\* C8: compute_result returns an outcome with a colour for every ray, scene
\* and bounce budget; hit is true exactly when some sphere of the scene is
\* intersected, and a miss has the background colour.
C8_ShaderTotalHitExact ==
    Returned =>
        /\ results[1][1] # Panic
        /\ results[1][1].color # None
        /\ results[1][1].hit <=> \E k \in Spheres : HitOf(k) # None
        /\ ~results[1][1].hit => results[1][1].color = Some(opt.bg)

\* C8's case: a hit shaded with a reflection bounce, whose recursive call
\* returned a colour
C8_Witness_HitWithBounce ==
    /\ Returned
    /\ bounces > 0
    /\ results[1][1].hit
    /\ results[1][1].color # None

Kinds == {"SetName", "ReserveRays", "SubmitResults"}

SendPc(kind) ==
    CASE kind = "SetName" -> "send_SetName"
      [] kind = "ReserveRays" -> "send_ReserveRays"
      [] kind = "SubmitResults" -> "send_SubmitResults"

RecvPc(kind) ==
    CASE kind = "SetName" -> "recv_SetName"
      [] kind = "ReserveRays" -> "recv_ReserveRays"
      [] kind = "SubmitResults" -> "recv_SubmitResults"

\* --fg and --bg at their defaults
DefaultOpt == [fg |-> <<V(1, 1, 1)>>, bg |-> V(0, 0, 0)]

WorkerOpts == {DefaultOpt, [fg |-> Palette(2), bg |-> V(1, 0, 1)]}

\* what the server may answer a ReserveRays request with
WorkerRays ==
    { Ray(V(0, 0, -4), V(0, 0, 1)), Ray(V(0, 0, -4), V(0, 1, 0)),
      Ray(V(0, 0, 0), V(0, 0, 1)) }

WorkerScenes ==
    { <<Sphere(V(0, 0, 0), F(1)), Sphere(V(0, 0, 1), F(2))>>,
      <<Sphere(V(0, 0, 3), F(1))>> }

Init ==
    /\ pc = "connect"
    /\ opt \in WorkerOpts
    /\ bounces = 1
    /\ sent = <<>>
    /\ inflight = 0
    /\ response = "None"
    /\ ioerr = FALSE
    /\ rays = <<>>
    /\ scene = <<>>
    /\ thread = Idle
    /\ results = <<>>
    /\ selected = <<>>
    /\ submitted = <<>>

\* a variant of question_mark that stays where it is and tries again
question_mark_retries(at) == at

\* the `?` after a transport call that returned Err: main returns the error
question_mark(at) == "failed"

\* a variant of after_response that submits again after a submission
after_response_resubmits(kind, resp) ==
    CASE kind = "SetName" -> "send_ReserveRays"
      [] kind = "ReserveRays" ->
            IF resp = "ReserveRays" THEN "evaluate" ELSE "panicked"
      [] kind = "SubmitResults" -> "send_SubmitResults"

\* where main goes once request(kind) has returned Ok(resp): only the answer
\* to ReserveRays is matched against its variant
after_response(kind, resp) ==
    CASE kind = "SetName" -> "send_ReserveRays"
      [] kind = "ReserveRays" ->
            IF resp = "ReserveRays" THEN "evaluate" ELSE "panicked"
      [] kind = "SubmitResults" -> "send_ReserveRays"

\* a variant of collect_into that fills the places in the order of arrival
collect_in_arrival_order(buffer, j, out) ==
    LET free == {i \in 1..Len(buffer) : buffer[i] = None}
        first == CHOOSE i \in free : \A k \in free : i <= k
    IN  [buffer EXCEPT ![first] = Some(out)]

\* collect() of the indexed parallel iterator: the outcome of the j-th ray
\* goes to the j-th place of the vector
collect_into(buffer, j, out) == [buffer EXCEPT ![j] = Some(out)]

\* the vector collect() returns once every place is filled
collected(buffer) == [j \in 1..Len(buffer) |-> buffer[j][1]]

Connect ==
    /\ pc = "connect"
    /\ pc' = "send_SetName"
    /\ UNCHANGED <<opt, bounces, sent, inflight, response, ioerr, rays, scene,
                   thread, results, selected, submitted>>

ConnectFails ==
    /\ pc = "connect"
    /\ ioerr' = TRUE
    /\ pc' = question_mark(pc)
    /\ UNCHANGED <<opt, bounces, sent, inflight, response, rays, scene,
                   thread, results, selected, submitted>>

\* request(): the request is encoded and written to the stream
Send(kind) ==
    /\ pc = SendPc(kind)
    /\ Len(sent) < MaxRequests
    /\ sent' = Append(sent, kind)
    /\ inflight' = inflight + 1
    /\ response' = "None"
    /\ submitted' = IF kind = "SubmitResults" THEN collected(results) ELSE submitted
    /\ pc' = RecvPc(kind)
    /\ UNCHANGED <<opt, bounces, ioerr, rays, scene, thread, results, selected>>

\* request(): encoding or one of the writes returns Err
SendFails(kind) ==
    /\ pc = SendPc(kind)
    /\ ioerr' = TRUE
    /\ pc' = question_mark(pc)
    /\ UNCHANGED <<opt, bounces, sent, inflight, response, rays, scene,
                   thread, results, selected, submitted>>

\* request(): the response is read and decoded, the request is dropped and
\* main goes on; the server may answer with any variant
Recv(kind, resp) ==
    /\ pc = RecvPc(kind)
    /\ inflight' = inflight - 1
    /\ response' = resp
    /\ pc' = after_response(kind, resp)
    /\ IF kind = "ReserveRays" /\ pc' = "evaluate"
       THEN /\ rays' \in SeqsUpTo(WorkerRays, MaxRays)
            /\ scene' \in WorkerScenes
            /\ results' = [j \in 1..Len(rays') |-> None]
            /\ selected' = [j \in 1..Len(rays') |-> None]
       ELSE IF kind = "SubmitResults"
       THEN /\ rays' = <<>>
            /\ scene' = <<>>
            /\ results' = <<>>
            /\ selected' = <<>>
       ELSE UNCHANGED <<rays, scene, results, selected>>
    /\ submitted' = <<>>
    /\ UNCHANGED <<opt, bounces, sent, ioerr, thread>>

\* request(): a read, the decompression or the decoding returns Err
RecvFails(kind) ==
    /\ pc = RecvPc(kind)
    /\ ioerr' = TRUE
    /\ pc' = question_mark(pc)
    /\ UNCHANGED <<opt, bounces, sent, inflight, response, rays, scene,
                   thread, results, selected, submitted>>

\* a pool thread takes a ray no thread has taken
Take(t, j) ==
    /\ pc = "evaluate"
    /\ thread[t] = 0
    /\ results[j] = None
    /\ \A u \in 1..NThreads : thread[u] # j
    /\ thread' = [thread EXCEPT ![t] = j]
    /\ UNCHANGED <<pc, opt, bounces, sent, inflight, response, ioerr, rays, scene,
                   results, selected, submitted>>

\* the thread's call of compute_result for ray j has returned `out` and the
\* outcome is collected; a panic of the call is main's
Finished(t, j, out) ==
    /\ results' = collect_into(results, j, out)
    /\ selected' = [selected EXCEPT ![j] = maybe_intersection(rays[j], scene)]
    /\ pc' = IF out = Panic THEN "panicked" ELSE pc
    /\ thread' = [thread EXCEPT ![t] = 0]
    /\ UNCHANGED <<opt, bounces, sent, inflight, response, ioerr, rays, scene,
                   submitted>>

Finish(t) ==
    /\ pc = "evaluate"
    /\ thread[t] # 0
    /\ Finished(t, thread[t], compute_result(rays[thread[t]], scene, opt, bounces))

\* collect() returns: every place of the vector is filled
Collect ==
    /\ pc = "evaluate"
    /\ \A j \in 1..Len(results) : results[j] # None
    /\ pc' = "send_SubmitResults"
    /\ UNCHANGED <<opt, bounces, sent, inflight, response, ioerr, rays, scene,
                   thread, results, selected, submitted>>

Next ==
    \/ Connect
    \/ ConnectFails
    \/ \E kind \in Kinds : Send(kind)
    \/ \E kind \in Kinds : SendFails(kind)
    \/ \E kind \in Kinds, resp \in Kinds : Recv(kind, resp)
    \/ \E kind \in Kinds : RecvFails(kind)
    \/ \E t \in 1..NThreads, j \in 1..Len(rays) : Take(t, j)
    \/ \E t \in 1..NThreads : Finish(t)
    \/ Collect

Spec == Init /\ [][Next]_vars

(***************************************************************************)
(* The claims about the worker, checked under Spec.                        *)
(***************************************************************************)
\* the k-th request of SetName, (ReserveRays, SubmitResults)*
Pattern(k) ==
    IF k = 1 THEN "SetName"
    ELSE IF k % 2 = 0 THEN "ReserveRays" ELSE "SubmitResults"

Sending == pc \in {"send_SetName", "send_ReserveRays", "send_SubmitResults"}

\* the shader's results for the reserved batch, in the order of its rays
Shaded == [j \in 1..Len(rays) |-> compute_result(rays[j], scene, opt, 1)]

\* C1: while and after the batch is evaluated, in whatever order the threads
\* finish, the collect buffer has the length of the batch and each filled
\* place j holds compute_result(rays[j], scene, opt, 1); when collect()
\* returns every place is filled.
C1_BatchKeepsPosition ==
    pc \in {"evaluate", "send_SubmitResults"} =>
        /\ Len(results) = Len(rays)
        /\ \A j \in 1..Len(rays) : results[j] # None => results[j] = Some(Shaded[j])
        /\ pc = "send_SubmitResults" => collected(results) = Shaded

\* C1's case: the second ray's outcome is collected while the first ray is
\* still pending, and the two outcomes differ
C1_Witness_OutOfOrder ==
    /\ pc = "evaluate"
    /\ Len(rays) = 2
    /\ results[1] = None
    /\ results[2] # None
    /\ Shaded[1] # Shaded[2]

\* C2: the requests sent are a prefix of SetName, ReserveRays, SubmitResults,
\* ReserveRays, SubmitResults, ...; at most one request is in flight, and
\* none is while main is about to send.
C2_RequestsInSequence ==
    /\ \A k \in 1..Len(sent) : sent[k] = Pattern(k)
    /\ inflight \in {0, 1}
    /\ Sending => inflight = 0

\* C2's case: the second SubmitResults is in flight
C2_Witness_SecondRound ==
    /\ Len(sent) = 5
    /\ sent[5] = "SubmitResults"
    /\ inflight = 1
    /\ pc = "recv_SubmitResults"

\* C3 as stated: once request() has returned a response whose variant is not
\* the request's, the worker has terminated.
C3_MismatchTerminates ==
    (response # "None" /\ response # sent[Len(sent)]) =>
        pc \in {"panicked", "failed"}

\* C9: once a transport call has failed main has returned the error, and no
\* request is sent afterwards; a SubmitResults request in flight carries the
\* outcomes of every ray of the batch reserved last, in order.
C9_NoRetryNoPartialBatch ==
    /\ [](ioerr => pc = "failed")
    /\ [][ioerr => sent' = sent]_vars
    /\ [](pc = "recv_SubmitResults" =>
            /\ \A j \in 1..Len(rays) : results[j] # None
            /\ submitted = Shaded)

\* C9's case: the read of the answer to a submitted batch of two rays fails
C9_Witness_FailedAfterSubmit ==
    /\ ioerr
    /\ pc = "failed"
    /\ Len(sent) = 3
    /\ sent[3] = "SubmitResults"
    /\ Len(submitted) = 2

====
